---- MODULE Spec2Model ----
(***************************************************************************)
(* Model of djangorest_alchemy/viewsets.py: AlchemyModelViewSet, the       *)
(* read-only viewset that lists and retrieves backend entities through a   *)
(* manager, paginates the list and serializes the result.                  *)
(*                                                                         *)
(* Python values are represented as follows.                               *)
(*   None / an int          the empty sequence <<>> / the sequence <<n>>   *)
(*   a dict                 a function whose domain is the set of its keys *)
(*   a list                 a sequence                                     *)
(*   **kwargs               a sequence of <<name, value>> pairs, in the    *)
(*                          order the URL pattern declares them            *)
(*   an entity              its primary key, a positive integer            *)
(***************************************************************************)
EXTENDS Integers, Sequences, FiniteSets, TLC

VARIABLES
    backend,      \* the rows the manager reads, in the manager's order
    paginate_by,  \* the viewset's configured page size (class attribute)
    frame,        \* the invocation of list/retrieve served one at a time
    repeated,     \* TRUE when frame holds a request that was sent again
    frames        \* the invocations of the concurrent clients

vars == <<backend, paginate_by, frame, repeated, frames>>

----------------------------------------------------------------------------
(* Bounds *)

MaxN == 3          \* most rows the backend holds
MaxPageSize == 2   \* largest configured page size
MaxKeys == 2       \* most path variables of a URL pattern
NumClients == 2    \* concurrent requests

----------------------------------------------------------------------------
(* Python values *)

None == <<>>
Some(n) == <<n>>
EmptyDict == [k \in {} |-> 0]

\* Python truth value of None or an int
Truthy(v) == v # None /\ v[1] # 0

Min(a, b) == IF a < b THEN a ELSE b

\* ceil(n / p) for p > 0
CeilDiv(n, p) == (n + p - 1) \div p

RECURSIVE SeqsUpTo(_, _)
\* all sequences over S of length at most n
SeqsUpTo(S, n) ==
    IF n = 0 THEN {<<>>}
    ELSE LET shorter == SeqsUpTo(S, n - 1)
         IN  shorter \cup {Append(s, x) : s \in shorter, x \in S}

----------------------------------------------------------------------------
(* Inputs *)

PageParams == 0..(MaxN + 1)
Parities == {"any", "odd"}
KeyNames == {"parent_pk", "pk"}
KeyValues == 1..(MaxN + 1)

Ascending(n) == [i \in 1..n |-> i]
Descending(n) == [i \in 1..n |-> n + 1 - i]

Backends == {Ascending(n) : n \in 0..MaxN} \cup {Descending(n) : n \in 0..MaxN}
PageSizes == {None} \cup {Some(n) : n \in 0..MaxPageSize}

\* the parsed path variables: distinct names, each with a value
KwargsSet ==
    {kw \in SeqsUpTo(KeyNames \X KeyValues, MaxKeys) :
        \A i, j \in 1..Len(kw) : i # j => kw[i][1] # kw[j][1]}

Excs == {"Error", "InvalidPage"}
ListSites == {"manager_factory", "list", "get_page", "model_class",
              "serializer_factory", "data"}
RetrieveSites == {"manager_factory", "retrieve", "model_class",
                  "serializer_factory", "data"}
NoFault == [at |-> "none", exc |-> "Error"]
Faults(sites) == {NoFault} \cup [at : sites, exc : Excs]

NoKwargs == <<>>
NoQuery == [page |-> 1, parity |-> "any"]

ListRequests ==
    [method : {"list"}, query_params : [page : PageParams, parity : Parities],
     kwargs : {NoKwargs}]
RetrieveRequests ==
    [method : {"retrieve"}, query_params : {NoQuery}, kwargs : KwargsSet]

----------------------------------------------------------------------------
(* Collaborators: the manager, the pagination mixin and the serializers *)

\* ManagerMixin.manager_factory(context): a manager bound to one model
manager_factory(context) == [model |-> "Model", context |-> context]

\* mgr.model_class()
model_class_of(mgr) == mgr.model

Matches(e, filters) == filters.parity = "any" \/ e % 2 = 1

\* mgr.list(other_pks, filters): the rows the filters keep, in backend order
mgr_list(other_pks, filters) == SelectSeq(backend, LAMBDA e : Matches(e, filters))

\* mgr.retrieve(pks, other_pks): the row the last key names, when there is one
mgr_retrieve_found(pks, other_pks) ==
    /\ Len(pks) > 0
    /\ \E i \in 1..Len(backend) : backend[i] = pks[Len(pks)]

mgr_retrieve(pks, other_pks) == pks[Len(pks)]

\* the pages a sequence of n rows has under page size p
NumPages(n, p) == CeilDiv(n, p)

\* MultipleObjectMixin.get_page: the requested page of the sequence, or the
\* InvalidPage signal when the page number is outside 1..ceil(len/page_size)
get_page_valid(queryset, page_size, page) ==
    page \in 1..NumPages(Len(queryset), page_size)

get_page(queryset, page_size, page) ==
    SubSeq(queryset, (page - 1) * page_size + 1,
           Min(page * page_size, Len(queryset)))

\* the canonical link of an entity
href(model_class, e) == <<model_class, e>>

\* serializer.data: the list serializer gives one link per entity, the model
\* serializer gives the entity's link and fields
data(s) ==
    IF s.many
    THEN [i \in 1..Len(s.instance) |->
            [href |-> href(s.model_class, s.instance[i])]]
    ELSE [href |-> href(s.model_class, s.instance), pk |-> s.instance]

----------------------------------------------------------------------------
(* AlchemyModelViewSet *)

\* the multiple flag is ignored: the single-object serializer every time
serializer_factory_single(multiple, queryset, model_class, context) ==
    [cls |-> "AlchemyModelSerializer", instance |-> queryset,
     model_class |-> model_class, context |-> context, many |-> FALSE]

serializer_factory(multiple, queryset, model_class, context) ==
    IF multiple
    THEN [cls |-> "AlchemyListSerializer", instance |-> queryset,
          model_class |-> model_class, context |-> context, many |-> TRUE]
    ELSE [cls |-> "AlchemyModelSerializer", instance |-> queryset,
          model_class |-> model_class, context |-> context, many |-> FALSE]

get_other_pks(request) == EmptyDict

\* the values in reverse order
get_pks_reversed(request, kwargs) ==
    [i \in 1..Len(kwargs) |-> kwargs[Len(kwargs) + 1 - i][2]]

get_pks(request, kwargs) == [i \in 1..Len(kwargs) |-> kwargs[i][2]]

HTTP_200_OK == 200
HTTP_400_BAD_REQUEST == 400

NoOutcome == [kind |-> "none", status |-> 0, body |-> EmptyDict, exc |-> ""]

\* Response(data, status)
Response(body, status) ==
    [kind |-> "response", status |-> status, body |-> body, exc |-> ""]

\* an exception leaving the handler
Raised(exc) == [kind |-> "raise", status |-> 0, body |-> EmptyDict, exc |-> exc]

pagination_enabled == Truthy(paginate_by)

\* the length taken after the cut to one page instead of before it
count_of_page(queryset) ==
    IF pagination_enabled THEN Min(Len(queryset), paginate_by[1])
    ELSE Len(queryset)

count_of(queryset) == Len(queryset)

\* the status argument forgotten
invalid_page_response_ok == Response(EmptyDict, HTTP_200_OK)

invalid_page_response == Response(EmptyDict, HTTP_400_BAD_REQUEST)

\* "page" hard-wired to null
list_response_null_page(count, results) ==
    Response([count |-> count, page |-> None, results |-> results], HTTP_200_OK)

\* "results" left out of the envelope when there is nothing to show
list_response_sparse(count, results) ==
    IF results = <<>>
    THEN Response([count |-> count, page |-> paginate_by], HTTP_200_OK)
    ELSE Response([count |-> count, page |-> paginate_by, results |-> results],
                  HTTP_200_OK)

list_response(count, results) ==
    Response([count |-> count, page |-> paginate_by, results |-> results],
             HTTP_200_OK)

retrieve_response(serialized) == Response(serialized, HTTP_200_OK)

NoSerializer ==
    [cls |-> "", instance |-> <<>>, model_class |-> "", context |-> EmptyDict,
     many |-> TRUE]

Idle ==
    [pc |-> "idle", request |-> [method |-> "none", query_params |-> NoQuery,
                                 kwargs |-> NoKwargs],
     fault |-> NoFault, queryset |-> <<>>, obj |-> 0, count |-> 0,
     model_class |-> "", serializer |-> NoSerializer, outcome |-> NoOutcome,
     calls |-> <<>>, overlapped |-> FALSE]

\* the invocation of a handler on a request, before its first statement
Enter(request, fault) ==
    [Idle EXCEPT !.pc = "manager_factory", !.request = request, !.fault = fault]

\* the request kept in one place for all invocations
shared_request(f) == frames[1].request

\* the request argument of the handler
the_request(f) == f.request

\* context={'request': request}
Context(f) == [request |-> the_request(f)]

\* the page returned by get_page thrown away
rebind_dropped(queryset, page) == queryset

\* queryset = self.get_page(queryset): the local name is bound to the page
rebind(queryset, page) == page

\* the collaborator call at `site` fails in this invocation
Fails(f, site) == f.fault.at = site

Called(f, fn, args) == [f EXCEPT !.calls = Append(@, [fn |-> fn, args |-> args])]

Finish(f, outcome) == [f EXCEPT !.pc = "done", !.outcome = outcome]

\* an except clause that also covers the calls outside the pagination step
Invoke_guarded(f, site, args, next) ==
    IF Fails(f, site)
    THEN IF f.fault.exc = "InvalidPage"
         THEN Finish(Called(f, site, args),
                     Response(EmptyDict, HTTP_400_BAD_REQUEST))
         ELSE Finish(Called(f, site, args), Raised(f.fault.exc))
    ELSE Called(next, site, args)

\* a collaborator call: logged, then either raising out of the handler or
\* continuing with `next`
Invoke(f, site, args, next) ==
    IF Fails(f, site)
    THEN Finish(Called(f, site, args), Raised(f.fault.exc))
    ELSE Called(next, site, args)

\* one statement of list
list_step(f) ==
    CASE f.pc = "manager_factory" ->
           Invoke(f, "manager_factory", <<Context(f)>>, [f EXCEPT !.pc = "list"])
      [] f.pc = "list" ->
           LET other_pks == get_other_pks(the_request(f))
               filters == the_request(f).query_params
               queryset == mgr_list(other_pks, filters)
           IN  Invoke(f, "list", <<other_pks, filters>>,
                      [f EXCEPT !.queryset = queryset,
                                !.count = count_of(queryset),
                                !.pc = IF pagination_enabled THEN "get_page"
                                       ELSE "model_class"])
      [] f.pc = "get_page" ->
           LET page == the_request(f).query_params.page
               g == Called(f, "get_page", <<f.queryset>>)
           IN  IF Fails(f, "get_page")
               THEN IF f.fault.exc = "InvalidPage"
                    THEN Finish(g, invalid_page_response)
                    ELSE Finish(g, Raised(f.fault.exc))
               ELSE IF ~get_page_valid(f.queryset, paginate_by[1], page)
               THEN Finish(g, invalid_page_response)
               ELSE [g EXCEPT !.queryset =
                                  rebind(f.queryset,
                                         get_page(f.queryset, paginate_by[1], page)),
                              !.pc = "model_class"]
      [] f.pc = "model_class" ->
           Invoke(f, "model_class", <<>>,
                  [f EXCEPT !.model_class = model_class_of(manager_factory(Context(f))),
                            !.pc = "serializer_factory"])
      [] f.pc = "serializer_factory" ->
           Invoke(f, "serializer_factory",
                  <<TRUE, f.queryset, f.model_class, Context(f)>>,
                  [f EXCEPT !.serializer =
                                serializer_factory(TRUE, f.queryset, f.model_class,
                                                   Context(f)),
                            !.pc = "data"])
      [] f.pc = "data" ->
           Invoke(f, "data", <<>>,
                  Finish(f, list_response(f.count, data(f.serializer))))

\* one statement of retrieve
retrieve_step(f) ==
    CASE f.pc = "manager_factory" ->
           Invoke(f, "manager_factory", <<Context(f)>>, [f EXCEPT !.pc = "retrieve"])
      [] f.pc = "retrieve" ->
           LET pks == get_pks(the_request(f), the_request(f).kwargs)
               other_pks == get_other_pks(the_request(f))
               g == Called(f, "retrieve", <<pks, other_pks>>)
           IN  IF Fails(f, "retrieve") THEN Finish(g, Raised(f.fault.exc))
               ELSE IF ~mgr_retrieve_found(pks, other_pks)
               THEN Finish(g, Raised("NotFound"))
               ELSE [g EXCEPT !.obj = mgr_retrieve(pks, other_pks),
                              !.pc = "model_class"]
      [] f.pc = "model_class" ->
           Invoke(f, "model_class", <<>>,
                  [f EXCEPT !.model_class = model_class_of(manager_factory(Context(f))),
                            !.pc = "serializer_factory"])
      [] f.pc = "serializer_factory" ->
           Invoke(f, "serializer_factory",
                  <<FALSE, f.obj, f.model_class, Context(f)>>,
                  [f EXCEPT !.serializer =
                                serializer_factory(FALSE, f.obj, f.model_class,
                                                   Context(f)),
                            !.pc = "data"])
      [] f.pc = "data" ->
           Invoke(f, "data", <<>>,
                  Finish(f, retrieve_response(data(f.serializer))))

\* one statement of the handler the request was routed to
Step(f) == IF f.request.method = "list" THEN list_step(f) ELSE retrieve_step(f)

RECURSIVE Run(_)
\* the handler run from f to its return or raise
Run(f) == IF f.pc = "done" THEN f ELSE Run(Step(f))

\* AlchemyModelViewSet.list(request, **kwargs) as one call
list(request, fault) == Run(Enter(request, fault))

\* AlchemyModelViewSet.retrieve(request, **kwargs) as one call
retrieve(request, fault) == Run(Enter(request, fault))

\* the manager's list cut to the page in place
backend_after_in_place(f) ==
    IF f.request.method = "list" /\ \E i \in 1..Len(f.calls) : f.calls[i].fn = "get_page"
    THEN f.queryset
    ELSE backend

\* what the handlers leave in the backend: they only read through the manager,
\* and list rebinds its local queryset to the page instead of cutting it
backend_after(f) == backend

----------------------------------------------------------------------------
(* Requests served one at a time *)

Init ==
    /\ backend \in Backends
    /\ paginate_by \in PageSizes
    /\ frame = Idle
    /\ repeated = FALSE
    /\ frames = [c \in 1..NumClients |-> Idle]

List ==
    /\ frame.pc = "idle"
    /\ \E request \in ListRequests, fault \in Faults(ListSites) :
          LET f == list(request, fault)
          IN  /\ frame' = f
              /\ backend' = backend_after(f)
    /\ UNCHANGED <<paginate_by, repeated, frames>>

Retrieve ==
    /\ frame.pc = "idle"
    /\ \E request \in RetrieveRequests, fault \in Faults(RetrieveSites) :
          LET f == retrieve(request, fault)
          IN  /\ frame' = f
              /\ backend' = backend_after(f)
    /\ UNCHANGED <<paginate_by, repeated, frames>>

\* the client sends the request it just got answered once more
Repeat ==
    /\ frame.pc = "done"
    /\ ~repeated
    /\ LET f == Run(Enter(frame.request, frame.fault))
       IN  /\ frame' = f
           /\ backend' = backend_after(f)
    /\ repeated' = TRUE
    /\ UNCHANGED <<paginate_by, frames>>

\* the response has been delivered
Return ==
    /\ frame.pc = "done"
    /\ frame' = Idle
    /\ repeated' = FALSE
    /\ UNCHANGED <<backend, paginate_by, frames>>

Next == List \/ Retrieve \/ Repeat \/ Return

Spec == Init /\ [][Next]_vars

----------------------------------------------------------------------------
(* Concurrent requests, one statement at a time *)

ConcPages == {1, MaxN + 1}
ConcKwargs == {<< <<"pk", 1>> >>, << <<"parent_pk", 1>>, <<"pk", MaxN + 1>> >>}
ConcFaults == {NoFault, [at |-> "list", exc |-> "Error"]}

ConcRequests ==
    {r \in ListRequests :
        r.query_params.page \in ConcPages /\ r.query_params.parity = "any"}
    \cup {r \in RetrieveRequests : r.kwargs \in ConcKwargs}

ConcPageSizes == {None, Some(1)}

InitConc ==
    /\ backend = Ascending(MaxN)
    /\ paginate_by \in ConcPageSizes
    /\ frame = Idle
    /\ repeated = FALSE
    /\ frames = [c \in 1..NumClients |-> Idle]

InFlight(f) == f.pc \notin {"idle", "done"}

\* a request arrives and is routed to its handler
Dispatch(c) ==
    /\ frames[c].pc = "idle"
    /\ \E request \in ConcRequests, fault \in ConcFaults :
          frames' = [frames EXCEPT ![c] = Enter(request, fault)]
    /\ UNCHANGED <<backend, paginate_by, frame, repeated>>

\* the handler of client c executes its next statement; overlapped records
\* that another handler was between two statements at that moment
Advance(c) ==
    /\ InFlight(frames[c])
    /\ LET f == Step(frames[c])
           o == \E d \in 1..NumClients : d # c /\ InFlight(frames[d])
       IN  /\ frames' = [frames EXCEPT ![c] =
                            [f EXCEPT !.overlapped = frames[c].overlapped \/ o]]
           /\ backend' = backend_after(f)
    /\ UNCHANGED <<paginate_by, frame, repeated>>

\* the response has been delivered
Deliver(c) ==
    /\ frames[c].pc = "done"
    /\ frames' = [frames EXCEPT ![c] = Idle]
    /\ UNCHANGED <<backend, paginate_by, frame, repeated>>

NextConc == \E c \in 1..NumClients : Dispatch(c) \/ Advance(c) \/ Deliver(c)

SpecConc == InitConc /\ [][NextConc]_vars

----------------------------------------------------------------------------
(* Properties *)

Last(s) == s[Len(s)]

CallsTo(f, fn) == {i \in 1..Len(f.calls) : f.calls[i].fn = fn}

IsDone(f, method) == f.pc = "done" /\ f.request.method = method

\* the full result set manager.list returns for the request
FullSet(f) == mgr_list(EmptyDict, f.request.query_params)

PageSize == paginate_by[1]

\* the rows of page k of a sequence under page size p
PageOf(seq, p, k) ==
    [i \in 1..(Min(k * p, Len(seq)) - (k - 1) * p) |-> seq[(k - 1) * p + i]]

IsEnvelope(o) ==
    /\ o.kind = "response"
    /\ o.status = HTTP_200_OK
    /\ DOMAIN o.body = {"count", "page", "results"}

IsInvalidPage(o) ==
    /\ o.kind = "response"
    /\ o.status = HTTP_400_BAD_REQUEST
    /\ DOMAIN o.body = {}

\* C1: every list response that is not an error response carries in count the
\* length of the full result set of manager.list, whatever the page size
\* (pagination disabled included) and the page; never the length of the page.
C1_CountIsTotal ==
    (IsDone(frame, "list") /\ frame.outcome.kind = "response"
        /\ frame.outcome.status # HTTP_400_BAD_REQUEST)
    => /\ "count" \in DOMAIN frame.outcome.body
       /\ frame.outcome.body.count = Len(FullSet(frame))

C1_Witness ==
    /\ IsDone(frame, "list")
    /\ IsEnvelope(frame.outcome)
    /\ pagination_enabled
    /\ frame.request.query_params.page = 2
    /\ frame.outcome.body.count = 3
    /\ Len(frame.outcome.body.results) = 1

\* the pagination step of this list invocation signalled InvalidPage
PaginationSignalledInvalidPage(f) ==
    /\ pagination_enabled
    /\ CallsTo(f, "get_page") # {}
    /\ \/ f.fault = [at |-> "get_page", exc |-> "InvalidPage"]
       \/ /\ f.fault.at # "get_page"
          /\ f.request.query_params.page \notin
                1..CeilDiv(Len(FullSet(f)), PageSize)

\* C2: when pagination is enabled and the pagination step of list signals
\* InvalidPage, the response is HTTP 400 with the empty body {}, and neither
\* serializer_factory nor the manager's model_class is invoked.
C2_InvalidPageShortCircuits ==
    (IsDone(frame, "list") /\ PaginationSignalledInvalidPage(frame))
    => /\ IsInvalidPage(frame.outcome)
       /\ CallsTo(frame, "serializer_factory") = {}
       /\ CallsTo(frame, "model_class") = {}
       /\ CallsTo(frame, "data") = {}

C2_Witness ==
    /\ IsDone(frame, "list")
    /\ PaginationSignalledInvalidPage(frame)
    /\ frame.fault = NoFault
    /\ Len(FullSet(frame)) = 3
    /\ frame.request.query_params.page = 4

PassthroughBut(f) ==
    /\ CallsTo(f, "get_page") = {}
    /\ ~IsInvalidPage(f.outcome)
    /\ f.fault.at \in {"none", "get_page"} =>
          /\ IsEnvelope(f.outcome)
          /\ f.outcome.body.count = Len(FullSet(f))
          /\ f.outcome.body.results =
                [i \in 1..Len(FullSet(f)) |-> [href |-> href("Model", FullSet(f)[i])]]

\* C4 as stated: with pagination disabled (page size unset or any falsy value)
\* list never paginates, never answers Invalid Page, returns all N results in
\* the manager's order, and reports page as null.
C4_Original ==
    (IsDone(frame, "list") /\ ~pagination_enabled)
    => /\ PassthroughBut(frame)
       /\ IsEnvelope(frame.outcome) => frame.outcome.body.page = None

\* C4 as amended: with pagination disabled list never paginates, never answers
\* Invalid Page, returns all N results in the manager's order, and the page
\* field is the configured page size itself: null when it is unset, the falsy
\* value (0) when one is configured.
C4_Passthrough ==
    (IsDone(frame, "list") /\ ~pagination_enabled)
    => /\ PassthroughBut(frame)
       /\ IsEnvelope(frame.outcome) => frame.outcome.body.page = paginate_by

C4_Witness ==
    /\ IsDone(frame, "list")
    /\ paginate_by = Some(0)
    /\ frame.request.query_params.page = 0
    /\ IsEnvelope(frame.outcome)
    /\ Len(frame.outcome.body.results) = 3
    /\ frame.outcome.body.page = Some(0)

EmptyEnvelope(o) ==
    /\ IsEnvelope(o)
    /\ o.body.count = 0
    /\ o.body.results = <<>>

\* every list response other than Invalid Page is an envelope of exactly the
\* keys count, page and results
ThreeKeys(f) ==
    (f.outcome.kind = "response" /\ ~IsInvalidPage(f.outcome))
    => IsEnvelope(f.outcome)

FailureOccurred(f) == f.fault.at # "none" /\ CallsTo(f, f.fault.at) # {}

\* the one failure list recovers: InvalidPage out of the pagination step
Recovered(f) ==
    /\ f.request.method = "list"
    /\ f.fault = [at |-> "get_page", exc |-> "InvalidPage"]

\* manager.retrieve was reached and finds no row for the keys
NotFound(f) ==
    /\ f.request.method = "retrieve"
    /\ f.fault.at \notin {"manager_factory", "retrieve"}
    /\ ~mgr_retrieve_found(get_pks(f.request, f.request.kwargs), EmptyDict)

\* C6: the only failure turned into a response is InvalidPage out of the
\* pagination step of list; a failure of manager_factory, manager.list (its
\* own InvalidPage included), manager.retrieve (not found included),
\* model_class or the serializer leaves the handler unchanged, as the last
\* thing the handler did, with no response.
C6_OnlyInvalidPageRecovered ==
    frame.pc = "done"
    => /\ (FailureOccurred(frame) /\ ~Recovered(frame))
             => /\ frame.outcome = Raised(frame.fault.exc)
                /\ Last(frame.calls).fn = frame.fault.at
       /\ NotFound(frame)
             => /\ frame.outcome = Raised("NotFound")
                /\ Last(frame.calls).fn = "retrieve"
       /\ frame.outcome.kind = "response"
             => \/ ~FailureOccurred(frame) /\ ~NotFound(frame)
                \/ Recovered(frame) /\ IsInvalidPage(frame.outcome)

C6_Witness ==
    /\ IsDone(frame, "list")
    /\ pagination_enabled
    /\ frame.fault = [at |-> "list", exc |-> "InvalidPage"]
    /\ frame.outcome = Raised("InvalidPage")

\* C7: get_pks gives the values of the path variables in declaration order,
\* nothing coerced, dropped or merged, the empty list for no path variable;
\* retrieve hands that list unchanged to manager.retrieve.
C7_KeyOrdering ==
    (IsDone(frame, "retrieve") /\ frame.fault.at # "manager_factory")
    => /\ CallsTo(frame, "retrieve") # {}
       /\ \A c \in CallsTo(frame, "retrieve") :
             LET pks == frame.calls[c].args[1]
                 kwargs == frame.request.kwargs
             IN  /\ Len(pks) = Len(kwargs)
                 /\ \A i \in 1..Len(kwargs) : pks[i] = kwargs[i][2]

C7_Witness ==
    /\ IsDone(frame, "retrieve")
    /\ Len(frame.request.kwargs) = 2
    /\ frame.request.kwargs[1] = <<"pk", 2>>
    /\ frame.request.kwargs[2] = <<"parent_pk", 1>>
    /\ frame.outcome.kind = "response"

\* C8: list and retrieve change neither the backend nor the viewset's
\* configuration, and a request sent again gets the response it got before.
C8_ReadOnlyIdempotent ==
    [][/\ backend' = backend
       /\ paginate_by' = paginate_by
       /\ (repeated' /\ ~repeated) => frame'.outcome = frame.outcome]_vars

C8_Witness ==
    /\ repeated
    /\ IsDone(frame, "list")
    /\ pagination_enabled
    /\ IsEnvelope(frame.outcome)
    /\ frame.outcome.body.count = 3
    /\ Len(frame.outcome.body.results) = 2

\* the serializer the factory is meant to build
ListSerializerOn(seq, f) ==
    [cls |-> "AlchemyListSerializer", instance |-> seq, model_class |-> "Model",
     context |-> [request |-> f.request], many |-> TRUE]

ModelSerializerOn(e, f) ==
    [cls |-> "AlchemyModelSerializer", instance |-> e, model_class |-> "Model",
     context |-> [request |-> f.request], many |-> FALSE]

\* what list serializes: the requested page, or everything without pagination
Serialized(f) ==
    IF pagination_enabled
    THEN PageOf(FullSet(f), PageSize, f.request.query_params.page)
    ELSE FullSet(f)

\* C9: serializer_factory chooses by the multiple flag alone: the list
\* serializer on the sequence for true, the single-object serializer on the
\* entity for false, bound to the model class and context given; list calls it
\* with true on the page (the full set without pagination), retrieve with
\* false on the entity manager.retrieve returned.
C9_SerializerDispatch ==
    (frame.pc = "done" /\ CallsTo(frame, "serializer_factory") # {})
    => \A c \in CallsTo(frame, "serializer_factory") :
          LET args == frame.calls[c].args
              built == frame.fault.at # "serializer_factory"
          IN  /\ args[3] = "Model"
              /\ args[4] = [request |-> frame.request]
              /\ IF frame.request.method = "list"
                 THEN /\ args[1] = TRUE
                      /\ args[2] = Serialized(frame)
                      /\ built => frame.serializer =
                                     ListSerializerOn(Serialized(frame), frame)
                 ELSE /\ args[1] = FALSE
                      /\ args[2] = frame.request.kwargs[Len(frame.request.kwargs)][2]
                      /\ built => frame.serializer =
                                     ModelSerializerOn(args[2], frame)

C9_Witness ==
    /\ IsDone(frame, "retrieve")
    /\ frame.outcome.kind = "response"
    /\ frame.serializer.cls = "AlchemyModelSerializer"
    /\ frame.serializer.instance = 2

\* C10: whatever the interleaving of the statements of concurrent list and
\* retrieve requests, each request gets the outcome it gets when its handler
\* runs alone from start to end.
C10_NoInterference ==
    \A c \in 1..NumClients :
        frames[c].pc = "done"
        => frames[c].outcome =
              Run(Enter(frames[c].request, frames[c].fault)).outcome

C10_Witness ==
    /\ \A c \in 1..2 : frames[c].pc = "done" /\ frames[c].overlapped
    /\ IsEnvelope(frames[1].outcome)
    /\ frames[2].request.method = "retrieve"
    /\ frames[2].outcome.kind = "response"
====
